---------------------------- MODULE Spec2Model ----------------------------
(***************************************************************************)
(* A model of tinkerer/ext/metadata.py: the three host callbacks           *)
(* get_metadata (source-read), process_metadata (env-updated) and          *)
(* add_metadata (html-page-context), over the build environment they       *)
(* share.  Strings are sequences of one-character strings, so that         *)
(* str.startswith, the regular expressions and strptime are computed on    *)
(* the text itself.  Optional values are <<>> (None) or <<v>>.             *)
(***************************************************************************)
EXTENDS Integers, Sequences, FiniteSets

(***************************************************************************)
(* Bounds of the model.                                                    *)
(***************************************************************************)
\* documents read (get_metadata calls) in one build of the pipeline
MaxDocs == 2
\* pages rendered (add_metadata calls) in one build of the pipeline
MaxRenders == 1
\* get_metadata calls in one behaviour of the source-read specification
MaxReads == 2
\* clock ticks that may pass during one build
MaxTicks == 2
\* resolution of the wall clock: ticks in one day
TicksPerDay == 2

(***************************************************************************)
(* Characters and strings.                                                 *)
(***************************************************************************)
None == <<>>
Some(v) == <<v>>

UpperCase == <<"A", "B", "C", "D", "E", "F", "G", "H", "I", "J", "K", "L", "M",
               "N", "O", "P", "Q", "R", "S", "T", "U", "V", "W", "X", "Y", "Z">>
LowerCase == <<"a", "b", "c", "d", "e", "f", "g", "h", "i", "j", "k", "l", "m",
               "n", "o", "p", "q", "r", "s", "t", "u", "v", "w", "x", "y", "z">>
DigitChars == <<"0", "1", "2", "3", "4", "5", "6", "7", "8", "9">>
\* the characters \s matches and str.strip removes
Whitespace == {" ", "\t", "\n", "\r", "\f"}

SetMin(S) == CHOOSE x \in S : \A y \in S : x <= y
SetMax(S) == CHOOSE x \in S : \A y \in S : x >= y

IsDigit(c) == \E i \in 1..Len(DigitChars) : DigitChars[i] = c
DigitVal(c) == (CHOOSE i \in 1..Len(DigitChars) : DigitChars[i] = c) - 1
IsSpace(c) == c \in Whitespace
\* re.IGNORECASE, as strptime compiles its patterns
Lower(c) ==
    IF \E i \in 1..Len(UpperCase) : UpperCase[i] = c
    THEN LowerCase[CHOOSE i \in 1..Len(UpperCase) : UpperCase[i] = c]
    ELSE c
LowerStr(s) == [i \in 1..Len(s) |-> Lower(s[i])]

\* str.startswith
StartsWith(s, p) == Len(s) >= Len(p) /\ SubSeq(s, 1, Len(p)) = p

\* str.strip
Strip(s) ==
    LET keep == {i \in 1..Len(s) : ~IsSpace(s[i])}
    IN  IF keep = {} THEN <<>> ELSE SubSeq(s, SetMin(keep), SetMax(keep))

\* the first position at or after i that holds no whitespace (\s+ is greedy)
SkipSpaces(s, i) ==
    SetMin({j \in i..(Len(s) + 1) : j > Len(s) \/ ~IsSpace(s[j])})

(***************************************************************************)
(* datetime: a datetime is its position on the clock, the proleptic        *)
(* Gregorian ordinal of its day times TicksPerDay plus the tick of the     *)
(* day; datetimes compare as these numbers do.                             *)
(***************************************************************************)
IsLeap(y) == (y % 4 = 0) /\ ((y % 100 # 0) \/ (y % 400 = 0))
DaysInMonth(y, m) ==
    CASE m \in {4, 6, 9, 11} -> 30
      [] m = 2 -> IF IsLeap(y) THEN 29 ELSE 28
      [] OTHER -> 31
RECURSIVE DaysBeforeMonth(_, _)
DaysBeforeMonth(y, m) ==
    IF m = 1 THEN 0 ELSE DaysBeforeMonth(y, m - 1) + DaysInMonth(y, m - 1)
DaysBeforeYear(y) ==
    (y - 1) * 365 + ((y - 1) \div 4) - ((y - 1) \div 100) + ((y - 1) \div 400)
Ordinal(y, m, d) == DaysBeforeYear(y) + DaysBeforeMonth(y, m) + d
Midnight(y, m, d) == Ordinal(y, m, d) * TicksPerDay

\* datetime(y, m, d): ValueError (None here) outside the calendar
MakeDate(y, m, d) ==
    IF y >= 1 /\ y <= 9999 /\ m \in 1..12 /\ d >= 1 /\ d <= DaysInMonth(y, m)
    THEN Some(Midnight(y, m, d))
    ELSE None

(***************************************************************************)
(* strptime.  Each directive parser returns <<value, next position>> or    *)
(* None when its pattern does not match at position i.                     *)
(***************************************************************************)
DigitAt(s, i) == i <= Len(s) /\ IsDigit(s[i])
TwoDigits(s, i) == DigitVal(s[i]) * 10 + DigitVal(s[i + 1])

\* %d: 3[0-1]|[1-2]\d|0[1-9]|[1-9]| [1-9]
ParseDay(s, i) ==
    IF DigitAt(s, i) /\ DigitAt(s, i + 1) /\ TwoDigits(s, i) \in 1..31
    THEN <<TwoDigits(s, i), i + 2>>
    ELSE IF DigitAt(s, i) /\ DigitVal(s[i]) \in 1..9
    THEN <<DigitVal(s[i]), i + 1>>
    ELSE None

\* %m: 1[0-2]|0[1-9]|[1-9]
ParseMonthNumber(s, i) ==
    IF DigitAt(s, i) /\ DigitAt(s, i + 1) /\ TwoDigits(s, i) \in 1..12
    THEN <<TwoDigits(s, i), i + 2>>
    ELSE IF DigitAt(s, i) /\ DigitVal(s[i]) \in 1..9
    THEN <<DigitVal(s[i]), i + 1>>
    ELSE None

\* %Y: \d\d\d\d
ParseYear(s, i) ==
    IF \A k \in 0..3 : DigitAt(s, i + k)
    THEN <<TwoDigits(s, i) * 100 + TwoDigits(s, i + 2), i + 4>>
    ELSE None

MonthAbbr ==
    << <<"j", "a", "n">>, <<"f", "e", "b">>, <<"m", "a", "r">>,
       <<"a", "p", "r">>, <<"m", "a", "y">>, <<"j", "u", "n">>,
       <<"j", "u", "l">>, <<"a", "u", "g">>, <<"s", "e", "p">>,
       <<"o", "c", "t">>, <<"n", "o", "v">>, <<"d", "e", "c">> >>
MonthFull ==
    << <<"j", "a", "n", "u", "a", "r", "y">>,
       <<"f", "e", "b", "r", "u", "a", "r", "y">>,
       <<"m", "a", "r", "c", "h">>,
       <<"a", "p", "r", "i", "l">>,
       <<"m", "a", "y">>,
       <<"j", "u", "n", "e">>,
       <<"j", "u", "l", "y">>,
       <<"a", "u", "g", "u", "s", "t">>,
       <<"s", "e", "p", "t", "e", "m", "b", "e", "r">>,
       <<"o", "c", "t", "o", "b", "e", "r">>,
       <<"n", "o", "v", "e", "m", "b", "e", "r">>,
       <<"d", "e", "c", "e", "m", "b", "e", "r">> >>

\* %b or %B: one of the twelve names, whatever its case
ParseMonthName(s, names) ==
    LET hits == {m \in 1..12 :
                    /\ Len(s) >= Len(names[m])
                    /\ LowerStr(SubSeq(s, 1, Len(names[m]))) = names[m]}
    IN  IF hits = {} THEN None
        ELSE LET m == SetMin(hits) IN <<m, Len(names[m]) + 1>>

\* a literal character of the format
LiteralAt(s, i, c) == i <= Len(s) /\ s[i] = c
\* a blank of the format: \s+
SpaceAt(s, i) == i <= Len(s) /\ IsSpace(s[i])

\* strptime(s, '<month name> %d, %Y') with month names `names`
StrptimeNamed(s, names) ==
    LET mm == ParseMonthName(s, names)
    IN  IF mm = None \/ ~SpaceAt(s, mm[2]) THEN None
        ELSE LET dd == ParseDay(s, SkipSpaces(s, mm[2]))
             IN  IF dd = None \/ ~LiteralAt(s, dd[2], ",")
                    \/ ~SpaceAt(s, dd[2] + 1)
                 THEN None
                 ELSE LET yy == ParseYear(s, SkipSpaces(s, dd[2] + 1))
                      IN  IF yy = None \/ yy[2] # Len(s) + 1 THEN None
                          ELSE MakeDate(yy[1], mm[1], dd[1])

\* strptime(s, '%Y/%m/%d/')
StrptimePath(s) ==
    LET yy == ParseYear(s, 1)
    IN  IF yy = None \/ ~LiteralAt(s, yy[2], "/") THEN None
        ELSE LET mm == ParseMonthNumber(s, yy[2] + 1)
             IN  IF mm = None \/ ~LiteralAt(s, mm[2], "/") THEN None
                 ELSE LET dd == ParseDay(s, mm[2] + 1)
                      IN  IF dd = None \/ ~LiteralAt(s, dd[2], "/")
                             \/ dd[2] # Len(s)
                          THEN None
                          ELSE MakeDate(yy[1], mm[1], dd[1])


(***************************************************************************)
(* Document names and source texts.                                        *)
(***************************************************************************)
ArticlePrefixA == <<"b", "l", "o", "g", "/">>
ArticlePrefixB == <<"c", "h", "e", "a", "t", "s", "h", "e", "e", "t", "s", "/">>
PagePrefix == <<"p", "a", "g", "e", "s", "/">>
DocPrefixA == <<"d", "o", "c", "/">>
DocPrefixB == <<"d", "o", "c", "s", "/">>
MasterDoc == <<"m", "a", "s", "t", "e", "r">>
GlossaryDoc == <<"g", "l", "o", "s", "s", "a", "r", "y">>
CreatedMarker == <<"c", "r", "e", "a", "t", "e", "d", ":", ":">>

\* documents of the pipeline
DocBlogA == <<"b", "l", "o", "g", "/", "a">>
DocBlogB == <<"b", "l", "o", "g", "/", "b">>
DocCheat == <<"c", "h", "e", "a", "t", "s", "h", "e", "e", "t", "s", "/", "c">>
DocPage == <<"p", "a", "g", "e", "s", "/", "p">>
DocDocs == <<"d", "o", "c", "s", "/", "d">>
DocIndex == <<"i", "n", "d", "e", "x">>
DocPostPast == <<"2", "0", "1", "6", "/", "0", "2", "/", "0", "6", "/", "p">>
DocPostFuture == <<"2", "0", "1", "6", "/", "0", "3", "/", "0", "2", "/", "q">>
DocPostBad == <<"2", "0", "1", "6", "/", "1", "3", "/", "0", "1", "/", "r">>

\* a document name <year>/<month>/<day>/p from three digit strings
PostDoc(y, m, d) == y \o <<"/">> \o m \o <<"/">> \o d \o <<"/", "p">>
PathYears == {<<"0", "0", "0", "0">>, <<"2", "0", "1", "5">>, <<"2", "0", "1", "6">>}
PathMonths == {<<"0", "0">>, <<"0", "2">>, <<"1", "3">>}
PathDays == {<<"0", "0">>, <<"2", "9">>, <<"3", "1">>}
PostDocs == {PostDoc(y, m, d) : y \in PathYears, m \in PathMonths, d \in PathDays}

\* first chunks of a source: a title, then a created directive or none
TitleLines == <<"T", "\n", "=", "\n">>
Directive(text) == TitleLines \o <<".", ".", " ">> \o CreatedMarker \o text
SrcNone == TitleLines
SrcPast == Directive(<<" ", "F", "e", "b", " ", "6", ",", " ", "2", "0", "1", "6", "\n">>)
SrcFuture == Directive(<<" ", " ", "m", "a", "r", "c", "h", " ", "0", "2", ",", " ", "2", "0", "1", "6">>)
SrcFullPast == Directive(<<" ", "F", "e", "b", "r", "u", "a", "r", "y", " ", "6", ",", " ", "2", "0", "1", "6">>)
SrcBad == Directive(<<" ", "s", "o", "o", "n">>)
SrcBadDay == Directive(<<" ", "F", "e", "b", " ", "3", "0", ",", " ", "2", "0", "1", "6">>)
SrcTrailing == Directive(<<" ", "F", "e", "b", " ", "6", ",", " ", "2", "0", "1", "6", " ", "x">>)
SrcBlank == Directive(<<" ", "\n">>)
SrcEmpty == Directive(<<"\n", "x">>)

\* the sources of the pipeline: <<document name, first chunk>>
PipelineFiles ==
    { <<DocBlogA, SrcPast>>, <<DocBlogA, SrcBad>>, <<DocBlogB, SrcFuture>>,
      <<DocBlogB, SrcNone>>, <<DocPostPast, SrcNone>>,
      <<DocPostFuture, SrcNone>>, <<DocPage, SrcNone>>, <<DocDocs, SrcNone>>,
      <<DocPostBad, SrcNone>>, <<MasterDoc, SrcNone>> }

\* the sources of the source-read specification
ReadSources ==
    { SrcNone, SrcPast, SrcFuture, SrcFullPast, SrcBad, SrcBadDay,
      SrcTrailing, SrcBlank, SrcEmpty }
ReadFiles ==
    ({DocBlogA, DocCheat} \X ReadSources)
        \cup ((PostDocs \cup {DocPage, DocDocs, MasterDoc, GlossaryDoc,
                              DocPostPast})
                \X {SrcNone, SrcPast})

\* the clock when the build starts: one tick before 2 March 2016
StartClock == Midnight(2016, 3, 2) - 1
EndClock == StartClock + MaxTicks

(***************************************************************************)
(* The build environment.                                                  *)
(***************************************************************************)
VARIABLES
    phase,          \* the host's lifecycle: "read", "render" or "aborted"
    clock,          \* the wall clock datetime.today() and now() read
    blog_metadata,  \* env.blog_metadata: document name -> Metadata
    blog_warnings,  \* env.blog_warnings
    blog_posts,     \* env.blog_posts
    blog_pages,     \* env.blog_pages
    orphan,         \* the documents whose env.metadata[doc]['orphan'] is True
    visited,        \* the documents with a record that the relation walk met
    walked,         \* env.blog_posts as the relation walk left it
    appended,       \* env.blog_posts as it was handed to the sort
    checked_at,     \* document -> the now() its date was compared with
    context,        \* the template context add_metadata last returned
    call,           \* the last callback and its arguments
    reads,          \* get_metadata calls so far
    renders         \* add_metadata calls so far

vars == <<phase, clock, blog_metadata, blog_warnings, blog_posts, blog_pages,
          orphan, visited, walked, appended, checked_at, context, call, reads,
          renders>>

Range(seq) == {seq[i] : i \in 1..Len(seq)}

\* Metadata(): the fields of classification, ordering and rendering
NewMetadata ==
    [is_post |-> FALSE, is_page |-> FALSE, is_article |-> FALSE,
     title |-> None, link |-> None, date |-> None, body |-> None]

\* a warnMsg dict: its type and docname (the message is text for the log)
Warning(type, docname) == [type |-> type, docname |-> docname]

\* docname.startswith("blog/") or docname.startswith("cheatsheets/")
ArticleNamespace(docname) ==
    StartsWith(docname, ArticlePrefixA) \/ StartsWith(docname, ArticlePrefixB)

\* docname.startswith("pages/")
PageNamespace(docname) == StartsWith(docname, PagePrefix)

\* re.match(r"\d{4}/\d{2}/\d{2}/", docname): the matched text, or None
MatchPostPath(docname) ==
    IF /\ Len(docname) >= 11
       /\ \A i \in {1, 2, 3, 4, 6, 7, 9, 10} : IsDigit(docname[i])
       /\ \A i \in {5, 8, 11} : docname[i] = "/"
    THEN Some(SubSeq(docname, 1, 11))
    ELSE None

\* re.search("\.\.\screated::(.+)", text): the group, or None
SearchCreated(text) ==
    LET starts == {i \in 1..Len(text) :
                      /\ i + 12 <= Len(text)
                      /\ text[i] = "." /\ text[i + 1] = "."
                      /\ IsSpace(text[i + 2])
                      /\ SubSeq(text, i + 3, i + 11) = CreatedMarker
                      /\ text[i + 12] # "\n"}
    IN  IF starts = {} THEN None
        ELSE LET i == SetMin(starts)
                 stop == SetMin({j \in (i + 12)..(Len(text) + 1) :
                                    j > Len(text) \/ text[j] = "\n"})
             IN  Some(SubSeq(text, i + 12, stop - 1))

\* the chain without its second format
ResolveCreatedAbbrOnly(created_string, docname, now) ==
    LET abbr == StrptimeNamed(created_string, MonthAbbr)
    IN  IF abbr # None THEN [date |-> abbr[1], warnings |-> <<>>]
        ELSE [date |-> now, warnings |-> <<Warning("Error", docname)>>]

\* the try/except chain over the two formats, today's date when both fail
ResolveCreated(created_string, docname, now) ==
    LET abbr == StrptimeNamed(created_string, MonthAbbr)
        full == StrptimeNamed(created_string, MonthFull)
    IN  IF abbr # None THEN [date |-> abbr[1], warnings |-> <<>>]
        ELSE IF full # None THEN [date |-> full[1], warnings |-> <<>>]
        ELSE [date |-> now, warnings |-> <<Warning("Error", docname)>>]

\* an article that is marked a post as well
ArticleMetadataAlsoPost(docname, date) ==
    [NewMetadata EXCEPT !.is_article = TRUE, !.is_post = TRUE,
                        !.link = Some(docname), !.date = Some(date)]

\* the article branch once a created directive was found
ArticleMetadata(docname, date) ==
    [NewMetadata EXCEPT !.is_article = TRUE, !.link = Some(docname),
                        !.date = Some(date)]

\* the post branch: is_post and link are set before the date is parsed
PostMetadata(docname, date) ==
    [NewMetadata EXCEPT !.is_post = TRUE, !.link = Some(docname),
                        !.date = date]

\* get_metadata: whether a record is stored, the record as the call leaves
\* it, the warnings it appends and whether it raised
GetMetadataResult(docname, source, now) ==
    LET plain == [stored |-> TRUE, metadata |-> NewMetadata,
                  warnings |-> <<>>, raised |-> FALSE]
    IN  IF docname \in {MasterDoc, GlossaryDoc}
        THEN [plain EXCEPT !.stored = FALSE]
        ELSE IF ArticleNamespace(docname)
        THEN LET created == SearchCreated(source)
             IN  IF created # None
                 THEN LET r == ResolveCreated(Strip(created[1]), docname, now)
                      IN  [plain EXCEPT
                              !.metadata = ArticleMetadata(docname, r.date),
                              !.warnings = r.warnings]
                 ELSE [plain EXCEPT
                          !.warnings = <<Warning("no_created_date", docname)>>]
        ELSE IF PageNamespace(docname)
        THEN [plain EXCEPT !.metadata = [NewMetadata EXCEPT !.is_page = TRUE]]
        ELSE LET match == MatchPostPath(docname)
             IN  IF match = None THEN plain
                 ELSE LET date == StrptimePath(match[1])
                      IN  [plain EXCEPT
                              !.metadata = PostMetadata(docname, date),
                              !.raised = (date = None)]

Put(f, k, v) == [x \in DOMAIN f \cup {k} |-> IF x = k THEN v ELSE f[x]]

NoCall == [op |-> "none", docname |-> <<>>, source |-> <<>>, now |-> 0,
           nwarn |-> 0, host_prev |-> None, host_next |-> None]
NoContext == [prev |-> None, next |-> None, metadata |-> None]

Init ==
    /\ phase = "read"
    /\ clock = StartClock
    /\ blog_metadata = <<>>
    /\ blog_warnings = <<>>
    /\ blog_posts = <<>>
    /\ blog_pages = <<>>
    /\ orphan = {}
    /\ visited = {}
    /\ walked = <<>>
    /\ appended = <<>>
    /\ checked_at = <<>>
    /\ context = NoContext
    /\ call = NoCall
    /\ reads = 0
    /\ renders = 0

\* time passes between two callbacks; no callback reads the clock once the
\* posts are ordered
Tick ==
    /\ phase = "read"
    /\ clock < EndClock
    /\ clock' = clock + 1
    /\ UNCHANGED <<phase, blog_metadata, blog_warnings, blog_posts, blog_pages,
                   orphan, visited, walked, appended, checked_at, context, call,
                   reads, renders>>

\* the source-read callback
GetMetadata(docname, source, limit) ==
    /\ phase = "read"
    /\ reads < limit
    /\ LET r == GetMetadataResult(docname, source, clock)
       IN  /\ blog_metadata' = IF r.stored
                               THEN Put(blog_metadata, docname, r.metadata)
                               ELSE blog_metadata
           /\ blog_warnings' = blog_warnings \o r.warnings
           /\ phase' = IF r.raised THEN "aborted" ELSE "read"
    /\ call' = [NoCall EXCEPT !.op = "get_metadata", !.docname = docname,
                              !.source = source, !.now = clock,
                              !.nwarn = Len(blog_warnings)]
    /\ reads' = reads + 1
    /\ UNCHANGED <<clock, blog_posts, blog_pages, orphan, visited, walked,
                   appended, checked_at, context, renders>>

ReadAny == \E f \in ReadFiles : GetMetadata(f[1], f[2], MaxReads)

NextRead == Tick \/ ReadAny

SpecRead == Init /\ [][NextRead]_vars


(***************************************************************************)
(* process_metadata.                                                       *)
(***************************************************************************)
\* env.titles[doc].astext(): the host's title of a document
HostTitle(doc) == <<"t", ":">> \o doc

\* the sequences over S that repeat no element
InjectiveSeqs(S) ==
    UNION {{f \in [1..n -> S] : \A i, j \in 1..n : f[i] = f[j] => i = j} :
              n \in 0..Cardinality(S)}

IndexOf(seq, x) == SetMin({i \in 1..Len(seq) : seq[i] = x})

\* env.collect_relations(): document -> <<parent, previous, next>>, for the
\* toctree that lists `order` below master, the positions in `nested` being
\* children of the entry before them rather than of master
Relations(order, nested) ==
    [d \in {MasterDoc} \cup Range(order) |->
        IF d = MasterDoc
        THEN <<None, None, IF order = <<>> THEN None ELSE Some(order[1])>>
        ELSE LET i == IndexOf(order, d)
                 parent == IF i \in nested
                           THEN order[SetMax({j \in 1..(i - 1) : j \notin nested})]
                           ELSE MasterDoc
             IN  <<Some(parent),
                   Some(IF i = 1 THEN MasterDoc ELSE order[i - 1]),
                   IF i = Len(order) THEN None ELSE Some(order[i + 1])>>]

\* while relations[doc][2]: doc = relations[doc][2]
RECURSIVE WalkFrom(_, _)
WalkFrom(relations, doc) ==
    IF relations[doc][3] = None THEN <<>>
    ELSE <<relations[doc][3][1]>> \o WalkFrom(relations, relations[doc][3][1])

\* the walk of the relation chain: titles of the documents it meets, posts
\* and pages among the children of master
WalkResult(relations, metadata) ==
    LET chain == WalkFrom(relations, MasterDoc)
        TopLevel(d) == d \in DOMAIN metadata /\ relations[d][1] = Some(MasterDoc)
        IsPost(d) ==
            TopLevel(d) /\ (metadata[d].is_post \/ metadata[d].is_article)
        IsPage(d) ==
            /\ TopLevel(d)
            /\ ~(metadata[d].is_post \/ metadata[d].is_article)
            /\ metadata[d].is_page
    IN  [posts |-> SelectSeq(chain, IsPost),
         pages |-> SelectSeq(chain, IsPage),
         met |-> Range(chain) \cap DOMAIN metadata,
         metadata |-> [d \in DOMAIN metadata |->
                          IF d \in Range(chain)
                          THEN [metadata[d] EXCEPT !.title = Some(HostTitle(d))]
                          ELSE metadata[d]]]

\* a loop that promotes whatever has a date
IsPublishedAnyDate(metadata, now) == metadata.date # None

\* whether the loop over the unrelated documents promotes this one
IsPublished(metadata, now) == metadata.date # None /\ metadata.date[1] < now

\* a round that flags a draft but records no warning for it
PromoteStepSilentDraft(st, post, now) ==
    IF post \in {GlossaryDoc, MasterDoc} THEN st
    ELSE LET metadata == st.metadata[post]
         IN  IF IsPublished(metadata, now)
             THEN [st EXCEPT
                      !.posts = Append(st.posts, post),
                      !.metadata[post].title = Some(HostTitle(post)),
                      !.orphan = st.orphan \cup {post}]
             ELSE IF metadata.link # None
             THEN [st EXCEPT !.orphan = st.orphan \cup {post}]
             ELSE st

\* one round of the loop over the unrelated documents; st holds the posts,
\* the records, the orphan flags and the warnings so far
PromoteStep(st, post, now) ==
    IF post \in {GlossaryDoc, MasterDoc} THEN st
    ELSE LET metadata == st.metadata[post]
         IN  IF IsPublished(metadata, now)
             THEN [st EXCEPT
                      !.posts = Append(st.posts, post),
                      !.metadata[post].title = Some(HostTitle(post)),
                      !.orphan = st.orphan \cup {post}]
             ELSE IF metadata.link # None
             THEN [st EXCEPT
                      !.orphan = st.orphan \cup {post},
                      !.warnings = IF metadata.date = None THEN st.warnings
                                   ELSE Append(st.warnings,
                                               Warning("draft", metadata.link[1])),
                      \* None has no strftime
                      !.raised = (metadata.date = None)]
             ELSE st

RECURSIVE PromoteAll(_, _, _)
PromoteAll(st, unrelated, nows) ==
    IF unrelated = <<>> \/ st.raised THEN st
    ELSE PromoteAll(PromoteStep(st, Head(unrelated), Head(nows)),
                    Tail(unrelated), Tail(nows))

\* a sort that is an ascending sort reversed: ties come out backwards
InsertByDateTiesFirst(sorted, doc, metadata) ==
    LET ahead == Cardinality({i \in 1..Len(sorted) :
                    metadata[sorted[i]].date[1] > metadata[doc].date[1]})
    IN  SubSeq(sorted, 1, ahead) \o <<doc>> \o SubSeq(sorted, ahead + 1, Len(sorted))

\* where list.sort(key=date, reverse=True) leaves doc among documents already
\* in order: behind every one whose date is not earlier
InsertByDate(sorted, doc, metadata) ==
    LET ahead == Cardinality({i \in 1..Len(sorted) :
                    metadata[sorted[i]].date[1] >= metadata[doc].date[1]})
    IN  SubSeq(sorted, 1, ahead) \o <<doc>> \o SubSeq(sorted, ahead + 1, Len(sorted))

RECURSIVE SortByDate(_, _)
SortByDate(posts, metadata) ==
    IF posts = <<>> THEN <<>>
    ELSE InsertByDate(SortByDate(SubSeq(posts, 1, Len(posts) - 1), metadata),
                      posts[Len(posts)], metadata)

\* the sort compares a date with None: TypeError
SortRaises(posts, metadata) ==
    /\ \E i \in 1..Len(posts) : metadata[posts[i]].date = None
    /\ \E i \in 1..Len(posts) : metadata[posts[i]].date # None

\* sortedStringList: the links of the sorted records
SortedLinks(posts, metadata) ==
    LET sorted == SortByDate(posts, metadata)
    IN  [i \in 1..Len(sorted) |->
            IF metadata[sorted[i]].link = None THEN None
            ELSE metadata[sorted[i]].link[1]]

\* the documents with a record that are not among the posts
UnrelatedAll(metadata, posts) == DOMAIN metadata
Unrelated(metadata, posts) == DOMAIN metadata \ Range(posts)

\* the orders in which a dict may hand out the keys S
Permutations(S) ==
    {f \in [1..Cardinality(S) -> S] : \A i, j \in 1..Cardinality(S) :
                                          f[i] = f[j] => i = j}

\* the toctrees the host may hold over the documents docs: an order of some
\* of them below master, after the glossary when it is listed, and the
\* positions that are nested
Toctrees(docs) ==
    UNION {{<<head \o order, nested>> :
               nested \in SUBSET (2..(Len(head) + Len(order)))} :
              head \in {<<>>, <<GlossaryDoc>>}, order \in InjectiveSeqs(docs)}

\* what the walk may leave, over every toctree of the documents read
WalkResults(metadata) ==
    {WalkResult(Relations(t[1], t[2]), metadata) :
        t \in Toctrees(DOMAIN metadata)}

\* the clock readings of the loop: now() is read for the dated documents
\* only, and never runs backwards
ClockReadings(n, from) ==
    {nows \in [1..n -> from..EndClock] :
        \A i \in 1..n : nows[i] >= (IF i = 1 THEN from ELSE nows[i - 1])}

\* the env-updated callback: walk is what the relation chain of the host's
\* toctree gives, `unrelated` the order in which the dict hands out its keys,
\* nows the clock readings of the loop
ProcessMetadata ==
    /\ phase = "read"
    /\ \E walk \in WalkResults(blog_metadata) :
       \E unrelated \in Permutations(Unrelated(blog_metadata, walk.posts)) :
         LET dated == {i \in 1..Len(unrelated) :
                          blog_metadata[unrelated[i]].date # None}
             Rank(i) == Cardinality({j \in dated : j <= i})
         IN  \E nows \in ClockReadings(Cardinality(dated), clock) :
               LET at == [i \in 1..Len(unrelated) |->
                             IF i \in dated THEN nows[Rank(i)] ELSE clock]
                   st == PromoteAll(
                            [posts |-> walk.posts, metadata |-> walk.metadata,
                             orphan |-> orphan, warnings |-> blog_warnings,
                             raised |-> FALSE],
                            unrelated, at)
                   raised == st.raised \/ SortRaises(st.posts, st.metadata)
               IN  /\ visited' = walk.met
                   /\ walked' = walk.posts
                   /\ appended' = st.posts
                   /\ blog_metadata' = st.metadata
                   /\ orphan' = st.orphan
                   /\ blog_warnings' = st.warnings
                   /\ blog_pages' = walk.pages
                   /\ blog_posts' = IF raised THEN st.posts
                                    ELSE SortedLinks(st.posts, st.metadata)
                   /\ checked_at' = [d \in {unrelated[i] : i \in dated} |->
                                        at[IndexOf(unrelated, d)]]
                   /\ clock' = IF dated = {} THEN clock
                               ELSE nows[Cardinality(dated)]
                   /\ phase' = IF raised THEN "aborted" ELSE "render"
    /\ call' = [NoCall EXCEPT !.op = "process_metadata", !.now = clock,
                              !.nwarn = Len(blog_warnings)]
    /\ UNCHANGED <<context, reads, renders>>

(***************************************************************************)
(* add_metadata.                                                           *)
(***************************************************************************)
\* what the host hands over as a prev or next link of a page
HostLink == [kind |-> "rellink"]
\* a reference to env.blog_metadata[doc]
MetadataOf(doc) == [kind |-> "Metadata", doc |-> doc]
\* context["body"]: the host's rendering of a page
HostBody(pagename) == <<"b", ":">> \o pagename

\* the two ends taken for one another
EndLinksSwapped(pagename, posts, host_prev, host_next) ==
    [prev |-> IF pagename = posts[Len(posts)] THEN None ELSE host_prev,
     next |-> IF pagename = posts[1] THEN None ELSE host_next]

\* no prev link if first post, no next link for last post
EndLinks(pagename, posts, host_prev, host_next) ==
    [prev |-> IF pagename = posts[1] THEN None ELSE host_prev,
     next |-> IF pagename = posts[Len(posts)] THEN None ELSE host_next]

\* an article's own prev and next, from its place in the posts
ArticleLinks(pagename, posts, links) ==
    LET pindex == IndexOf(posts, pagename)
    IN  [prev |-> IF pindex + 1 <= Len(posts)
                  THEN Some(MetadataOf(posts[pindex + 1]))
                  ELSE links.prev,
         next |-> IF pindex - 1 >= 1
                  THEN Some(MetadataOf(posts[pindex - 1]))
                  ELSE links.next]

\* the context add_metadata leaves, and whether it stores the body
AddMetadataResult(pagename, host_prev, host_next) ==
    IF pagename \in DOMAIN blog_metadata
    THEN IF pagename \in Range(blog_posts)
         THEN LET ends == EndLinks(pagename, blog_posts, host_prev, host_next)
                  links == IF blog_metadata[pagename].is_article
                           THEN ArticleLinks(pagename, blog_posts, ends)
                           ELSE ends
              IN  [prev |-> links.prev, next |-> links.next,
                   metadata |-> Some(MetadataOf(pagename)), body |-> TRUE]
         ELSE IF ~(StartsWith(pagename, DocPrefixA)
                     \/ StartsWith(pagename, DocPrefixB))
         THEN [prev |-> None, next |-> None,
               metadata |-> Some(MetadataOf(pagename)), body |-> FALSE]
         ELSE [prev |-> host_prev, next |-> host_next,
               metadata |-> Some(MetadataOf(pagename)), body |-> FALSE]
    ELSE [prev |-> host_prev, next |-> host_next,
          metadata |-> Some(NewMetadata), body |-> FALSE]

\* the html-page-context callback
AddMetadata(pagename, host_prev, host_next) ==
    /\ phase = "render"
    /\ renders < MaxRenders
    /\ LET r == AddMetadataResult(pagename, host_prev, host_next)
       IN  /\ context' = [prev |-> r.prev, next |-> r.next,
                          metadata |-> r.metadata]
           /\ blog_metadata' =
                 IF r.body
                 THEN [blog_metadata EXCEPT
                          ![pagename].body = Some(HostBody(pagename))]
                 ELSE blog_metadata
    /\ call' = [NoCall EXCEPT !.op = "add_metadata", !.docname = pagename,
                              !.now = clock, !.nwarn = Len(blog_warnings),
                              !.host_prev = host_prev, !.host_next = host_next]
    /\ renders' = renders + 1
    /\ UNCHANGED <<phase, clock, blog_warnings, blog_posts, blog_pages, orphan,
                   visited, walked, appended, checked_at, reads>>

ReadSource == \E f \in PipelineFiles : GetMetadata(f[1], f[2], MaxDocs)

RenderPage ==
    \E pagename \in DOMAIN blog_metadata \cup {DocIndex} :
    \E host_prev, host_next \in {None, Some(HostLink)} :
        AddMetadata(pagename, host_prev, host_next)

Next == Tick \/ ReadSource \/ ProcessMetadata \/ RenderPage

Spec == Init /\ [][Next]_vars


(***************************************************************************)
(* Properties.                                                             *)
(***************************************************************************)
Records == DOMAIN blog_metadata
DateOf(doc) == blog_metadata[doc].date[1]
IsDated(doc) == doc \in Records /\ blog_metadata[doc].date # None
Flags(metadata) == {f \in {"is_article", "is_page", "is_post"} : metadata[f]}
\* the warnings the last callback appended
NewWarnings == SubSeq(blog_warnings, call.nwarn + 1, Len(blog_warnings))
\* the draft warnings naming doc, from position `from` of the warnings on
DraftCount(doc, from) ==
    Cardinality({i \in (from + 1)..Len(blog_warnings) :
                    blog_warnings[i] = Warning("draft", doc)})
\* the documents with a record that the relation walk did not add to the posts
IsUnrelated(doc) == doc \in Records /\ doc \notin Range(walked)
Occurrences(seq, x) == Cardinality({i \in 1..Len(seq) : seq[i] = x})

\* C1: every record that is a post or an article has a date and its own name
\* as link, and every record that is a page has neither date nor link.
C1_DatedAndLinked ==
    \A d \in Records :
        LET m == blog_metadata[d]
        IN  /\ (m.is_post \/ m.is_article) => m.date # None /\ m.link = Some(d)
            /\ m.is_page => m.date = None /\ m.link = None

\* C2: a record carries at most one of the three flags; a document of the
\* article namespace is never a page or a post, and carries no flag at all
\* when its source has no created directive; a document of the page namespace
\* is never a post; only a name with the date path is a post.
C2_OneClassification ==
    /\ \A d \in Records :
          LET m == blog_metadata[d]
          IN  /\ Cardinality(Flags(m)) <= 1
              /\ ArticleNamespace(d) => ~m.is_page /\ ~m.is_post
              /\ m.is_article => ArticleNamespace(d)
              /\ PageNamespace(d) => m.is_page /\ ~m.is_post
              /\ m.is_page => PageNamespace(d)
              /\ m.is_post => MatchPostPath(d) # None
    /\ (/\ call.op = "get_metadata"
        /\ ArticleNamespace(call.docname)
        /\ SearchCreated(call.source) = None)
          => Flags(blog_metadata[call.docname]) = {}

\* C2 witness: a call on an article-namespace document without a directive
\* left a record without flags, beside a record that is an article.
C2_Witness ==
    /\ call.op = "get_metadata"
    /\ ArticleNamespace(call.docname)
    /\ SearchCreated(call.source) = None
    /\ call.docname \in Records
    /\ \E d \in Records : blog_metadata[d].is_article

\* C3: for a document name with the date path, get_metadata completes and
\* leaves a post whose date is the date of the path and whose link is the name.
C3_PostPathTotal ==
    (call.op = "get_metadata" /\ MatchPostPath(call.docname) # None)
        => /\ phase # "aborted"
           /\ call.docname \in Records
           /\ LET m == blog_metadata[call.docname]
              IN  /\ m.is_post
                  /\ m.date # None
                  /\ m.date = StrptimePath(MatchPostPath(call.docname)[1])
                  /\ m.link = Some(call.docname)

\* the created text of a source parsed under '%b %d, %Y', else '%B %d, %Y'
ParsedCreated(source) ==
    LET text == Strip(SearchCreated(source)[1])
    IN  IF StrptimeNamed(text, MonthAbbr) # None
        THEN StrptimeNamed(text, MonthAbbr)
        ELSE StrptimeNamed(text, MonthFull)

\* C4: a call on an article-namespace document does not raise and ends in
\* one of three ways: the directive parses (article, link, the parsed date,
\* no warning); the directive does not parse (article, link, the current
\* time, one 'Error' warning); no directive (no flag, no date, no link, one
\* 'no_created_date' warning).
C4_ArticleDateTotal ==
    (call.op = "get_metadata" /\ ArticleNamespace(call.docname))
        => /\ phase # "aborted"
           /\ call.docname \in Records
           /\ LET d == call.docname
                  m == blog_metadata[d]
              IN  IF SearchCreated(call.source) = None
                  THEN /\ Flags(m) = {}
                       /\ m.date = None /\ m.link = None
                       /\ NewWarnings = <<Warning("no_created_date", d)>>
                  ELSE IF ParsedCreated(call.source) # None
                  THEN /\ Flags(m) = {"is_article"}
                       /\ m.link = Some(d)
                       /\ m.date = ParsedCreated(call.source)
                       /\ NewWarnings = <<>>
                  ELSE /\ Flags(m) = {"is_article"}
                       /\ m.link = Some(d)
                       /\ m.date = Some(call.now)
                       /\ NewWarnings = <<Warning("Error", d)>>

\* C4 witness: a directive that does not parse was given today's date and one
\* warning, after a directive in the long month format was parsed silently.
C4_Witness ==
    /\ call.op = "get_metadata"
    /\ ArticleNamespace(call.docname)
    /\ SearchCreated(call.source) # None
    /\ ParsedCreated(call.source) = None
    /\ blog_warnings = <<Warning("Error", call.docname)>>
    /\ \E d \in Records \ {call.docname} :
          /\ blog_metadata[d].is_article
          /\ blog_metadata[d].date = Some(Midnight(2016, 3, 2))

\* C5: after process_metadata the posts are document names in an order of
\* non-increasing dates, documents of equal date in the order in which they
\* were appended: the children of master first, then the promoted documents.
C5_SortedStable ==
    phase = "render"
        => /\ \A i \in 1..Len(blog_posts) : blog_posts[i] \in Records
           /\ SubSeq(appended, 1, Len(walked)) = walked
           /\ Len(blog_posts) = Len(appended)
           /\ Range(blog_posts) = Range(appended)
           /\ \A i, j \in 1..Len(blog_posts) :
                 i < j =>
                    /\ DateOf(blog_posts[i]) >= DateOf(blog_posts[j])
                    /\ DateOf(blog_posts[i]) = DateOf(blog_posts[j])
                          => IndexOf(appended, blog_posts[i])
                                < IndexOf(appended, blog_posts[j])

\* C5 witness: a child of master and a promoted document of the same date.
C5_Witness ==
    /\ phase = "render"
    /\ Len(walked) = 1
    /\ Len(blog_posts) = 2
    /\ DateOf(blog_posts[1]) = DateOf(blog_posts[2])

\* C6: an unrelated document whose date is later than the clock it was
\* compared with is not among the posts, is flagged orphan, and has exactly
\* one draft warning, appended by that pass.
C6_DraftSuppressed ==
    phase = "render"
        => \A d \in Records :
              (IsUnrelated(d) /\ IsDated(d) /\ DateOf(d) > checked_at[d])
                 => /\ d \notin Range(blog_posts)
                    /\ d \in orphan
                    /\ DraftCount(d, 0) = 1
                    /\ call.op = "process_metadata"
                          => DraftCount(d, call.nwarn) = 1

\* C6 witness: a pass that found a draft and published another document.
C6_Witness ==
    /\ call.op = "process_metadata"
    /\ phase = "render"
    /\ blog_posts # <<>>
    /\ \E d \in Records :
          IsUnrelated(d) /\ IsDated(d) /\ DateOf(d) > checked_at[d]

\* a date later than the clock of the pass: the clock it was compared with,
\* or the clock the pass ended at when it was not compared
IsFuture(doc) ==
    /\ IsDated(doc)
    /\ DateOf(doc) > (IF doc \in DOMAIN checked_at THEN checked_at[doc] ELSE clock)

\* C7 as claimed: every document with a future date has a draft warning and
\* is not among the posts.
C7_AllFutureAreDrafts ==
    phase = "render"
        => \A d \in Records :
              IsFuture(d) => d \notin Range(blog_posts) /\ DraftCount(d, 0) >= 1

\* C7 amended: a document with a future date that the relation walk did not
\* add to the posts has a draft warning and is not among the posts; one that
\* the walk added, a child of master, stays among the posts without a draft
\* warning.
C7_UnrelatedFutureAreDrafts ==
    phase = "render"
        => \A d \in Records :
              IsFuture(d) =>
                 IF IsUnrelated(d)
                 THEN d \notin Range(blog_posts) /\ DraftCount(d, 0) >= 1
                 ELSE d \in Range(blog_posts) /\ DraftCount(d, 0) = 0

\* C7 witness: a future-dated child of master among the posts, beside a
\* future-dated unrelated document.
C7_Witness ==
    /\ phase = "render"
    /\ \E d \in Records : IsFuture(d) /\ ~IsUnrelated(d)
    /\ \E d \in Records : IsFuture(d) /\ IsUnrelated(d)

\* C8: an unrelated document whose date is earlier than the clock it was
\* compared with is among the posts exactly once, has its title, and is
\* flagged orphan; no document is among the posts twice.
C8_OrphanPromoted ==
    phase = "render"
        => /\ \A d \in Records :
                 (IsUnrelated(d) /\ IsDated(d) /\ DateOf(d) < checked_at[d])
                    => /\ Occurrences(blog_posts, d) = 1
                       /\ blog_metadata[d].title = Some(HostTitle(d))
                       /\ d \in orphan
           /\ \A i, j \in 1..Len(blog_posts) :
                 blog_posts[i] = blog_posts[j] => i = j

\* C8 witness: a nested child, met by the walk but left out by it, promoted
\* beside a child of master.
C8_Witness ==
    /\ phase = "render"
    /\ walked # <<>>
    /\ \E d \in visited :
          /\ IsUnrelated(d) /\ IsDated(d) /\ DateOf(d) < checked_at[d]
          /\ d \in Range(blog_posts)

\* the last callback rendered a document that is among the posts
RenderedPost ==
    /\ call.op = "add_metadata"
    /\ call.docname \in Records
    /\ call.docname \in Range(blog_posts)

\* C9: rendering a plain post leaves prev None for the first of the posts and
\* next None for the last, whatever the host gave; both of the host's links
\* are dropped only when there is one post; the body is stored in the record.
C9_PlainPostEnds ==
    (/\ RenderedPost
     /\ blog_metadata[call.docname].is_post
     /\ ~blog_metadata[call.docname].is_article)
        => /\ call.docname = blog_posts[1] => context.prev = None
           /\ call.docname = blog_posts[Len(blog_posts)] => context.next = None
           /\ (/\ call.host_prev # None /\ call.host_next # None
               /\ context.prev = None /\ context.next = None)
                 => Len(blog_posts) = 1
           /\ blog_metadata[call.docname].body = Some(HostBody(call.docname))

\* C9 witness: the first of two posts, a plain post, rendered with both links
\* given by the host: prev dropped, next kept.
C9_Witness ==
    /\ RenderedPost
    /\ blog_metadata[call.docname].is_post
    /\ Len(blog_posts) = 2
    /\ call.docname = blog_posts[1]
    /\ call.host_prev # None /\ call.host_next # None
    /\ context.prev = None /\ context.next = call.host_next

\* C10: rendering an article at place i of the posts leaves prev the record
\* at i+1, or None when there is none, and next the record at i-1, or None
\* when there is none.
C10_ArticleNeighbours ==
    (RenderedPost /\ blog_metadata[call.docname].is_article)
        => LET i == IndexOf(blog_posts, call.docname)
           IN  /\ context.prev = IF i + 1 <= Len(blog_posts)
                                 THEN Some(MetadataOf(blog_posts[i + 1]))
                                 ELSE None
               /\ context.next = IF i - 1 >= 1
                                 THEN Some(MetadataOf(blog_posts[i - 1]))
                                 ELSE None

=============================================================================
